---- MODULE Spec2Model ----
(***************************************************************************)
(* Two-stage pipeline of problem3: the Extraction Stage                    *)
(* (processor/process.py) and the Analysis Stage (analyzer/analyze.py),    *)
(* two separate processes that share /shared and synchronise only through  *)
(* the marker files /shared/status/fetch_complete.json and                 *)
(* /shared/status/process_complete.json.                                   *)
(*                                                                         *)
(* Encoding of data.                                                       *)
(*  - A word is an integer k >= 1: the k-th letter of the alphabet         *)
(*    repeated k times ("a", "bb", "ccc", ...), so len(word) = k and the   *)
(*    lexical order of lower-case words is the order of the integers.      *)
(*    -k is the same word in upper case; str.lower() maps it to k.         *)
(*  - A raw payload is a sequence of words and TagP items (a "<p>" tag),   *)
(*    or Unreadable: an entry of /shared/raw that open() refuses.          *)
(*  - A text is the sequence of its words (the single-space join of them). *)
(*  - A ratio (Python float quotient) is a reduced pair <<num, den>>.      *)
(*  - A file name is <<stem, extension>>; stems are integers in lexical    *)
(*    order.                                                               *)
(*  - utc() is the run the clock belongs to: PrevRun for files left on     *)
(*    the volume by an earlier run, ThisRun for everything written now.    *)
(* Not modelled: the links, images, sentence_count and avg_word_length     *)
(* fields of a processed record (no step of either stage reads them).      *)
(***************************************************************************)
EXTENDS Integers, Sequences, FiniteSets, TLC

\* ------------------------------------------------------------------ bounds
MaxDocs == 2
MaxWord == 2

\* ------------------------------------------------------- program constants
TOP_WORDS == 100
TOP_NGRAMS == 50
SENTENCE_WORDS == 20

\* ---------------------------------------------------------------- encoding
TagP == 0
Unreadable == [readable |-> FALSE]
Readable(html) == [readable |-> TRUE, html |-> html]
Absent == [state |-> "absent"]
Partial == [state |-> "partial"]
Complete(content) == [state |-> "complete", content |-> content]
NoRecord == [source_file |-> <<0, "none">>]
PrevRun == 0
ThisRun == 1

Stems == 1..MaxDocs
HtmlName(s) == <<s, "html">>
OtherName == <<1, "txt">>
RawNames == {HtmlName(s) : s \in Stems} \cup {OtherName}

\* Payloads the fetcher may have stored: an empty document, the words
\* MaxWord, ..., 1 once each in descending lexical order, a document with
\* markup and a word in both cases, and an entry open() refuses.
DescendingText == [i \in 1..MaxWord |-> MaxWord + 1 - i]
Payloads ==
  {Readable(<<>>), Readable(DescendingText), Readable(<<TagP, -1, 1>>), Unreadable}

Range(q) == {q[i] : i \in 1..Len(q)}

NameLess(a, b) ==
  \/ a[1] < b[1]
  \/ a[1] = b[1] /\ a[2] = "html" /\ b[2] = "txt"
  \/ a[1] = b[1] /\ a[2] = "json" /\ b[2] = "txt"

\* sorted(os.listdir(dir)): the names of a directory in lexical order
RECURSIVE sorted_listdir(_)
sorted_listdir(names) ==
  IF names = {} THEN <<>>
  ELSE LET m == CHOOSE x \in names : \A y \in names \ {x} : NameLess(x, y)
       IN  <<m>> \o sorted_listdir(names \ {m})

RECURSIVE SumSeq(_)
SumSeq(q) == IF q = <<>> THEN 0 ELSE q[1] + SumSeq(Tail(q))

\* ----------------------------------------------------- process.py, helpers
\* strip_html: tags become blanks, blanks collapse, the words remain
strip_html(html) == SelectSeq(html, LAMBDA x : x # TagP)

\* WORD_RE.findall(text)
findall_words(text) == text

\* len(P_TAG_RE.findall(html)), defaulting to 1 for a non-empty text
para_count(html, text) ==
  LET n == Len(SelectSeq(html, LAMBDA x : x = TagP))
  IN  IF n = 0 /\ text # <<>> THEN 1 ELSE n

\* fname.endswith(".html")
IsHtml(fname) == fname[2] = "html"

\* out_name: /shared/processed/<splitext(fname)[0]>.json
OutNameAlways1(fname) == <<1, "json">>
out_name(fname) == <<fname[1], "json">>

\* the record dumped for one raw document
MakeRecord(fname, html, now) ==
  LET text == strip_html(html)
  IN  [source_file |-> fname,
       text |-> text,
       word_count |-> Len(findall_words(text)),
       paragraph_count |-> para_count(html, text),
       processed_at |-> now]

\* the loop "for fname in sorted(os.listdir(raw_dir))" is exhausted
LoopDoneEarly(idx, listing) == idx >= Len(listing)
LoopDone(idx, listing) == idx > Len(listing)

\* "while not os.path.exists(status_file)" is left
WaitOverAlways(exists) == TRUE
WaitOver(exists) == exists

VARIABLES
  raw,              \* /shared/raw: name -> payload
  fetch_complete,   \* /shared/status/fetch_complete.json exists
  store,            \* /shared/processed: name -> Partial or Complete(record)
  process_complete, \* /shared/status/process_complete.json: Absent, Partial or Complete
  report,           \* /shared/analysis/final_report.json: Absent, Partial or Complete
  ppc, p_listing, p_idx, p_out, p_processed, perr,   \* process.py main()
  apc, a_listing, a_idx, a_docs, a_report, aerr      \* analyze.py main()

pvars == <<ppc, p_listing, p_idx, p_out, p_processed, perr>>
avars == <<apc, a_listing, a_idx, a_docs, a_report, aerr>>
vars == <<raw, fetch_complete, store, process_complete, report, pvars, avars>>

\* a file of a directory after open(path, "w") or after the dump and close
WriteFile(dir, name, content) ==
  [n \in DOMAIN dir \cup {name} |-> IF n = name THEN content ELSE dir[n]]

\* ------------------------------------------------------ process.py, main()
\* lines 43-45: leave the poll loop once fetch_complete.json exists
ProcWait ==
  /\ ppc = "wait"
  /\ WaitOver(fetch_complete)
  /\ ppc' = "list"
  /\ UNCHANGED <<raw, fetch_complete, store, process_complete, report,
                 p_listing, p_idx, p_out, p_processed, perr, avars>>

\* line 52: the listing of /shared/raw is taken once
ProcList ==
  /\ ppc = "list"
  /\ p_listing' = sorted_listdir(DOMAIN raw)
  /\ p_idx' = 1
  /\ ppc' = "loop"
  /\ UNCHANGED <<raw, fetch_complete, store, process_complete, report,
                 p_out, p_processed, perr, avars>>

\* line 53: a name that does not end in .html is passed over
ProcSkip ==
  /\ ppc = "loop"
  /\ ~LoopDone(p_idx, p_listing)
  /\ ~IsHtml(p_listing[p_idx])
  /\ p_idx' = p_idx + 1
  /\ UNCHANGED <<raw, fetch_complete, store, process_complete, report,
                 ppc, p_listing, p_out, p_processed, perr, avars>>

\* lines 54-79: open and read the raw document, build its record;
\* open() raises OSError on an entry it cannot read and nothing catches it
ProcRead ==
  /\ ppc = "loop"
  /\ ~LoopDone(p_idx, p_listing)
  /\ IsHtml(p_listing[p_idx])
  /\ LET fname == p_listing[p_idx]
     IN  IF raw[fname].readable
         THEN /\ p_out' = MakeRecord(fname, raw[fname].html, ThisRun)
              /\ ppc' = "open_out"
              /\ perr' = perr
         ELSE /\ ppc' = "crashed"
              /\ perr' = "OSError"
              /\ p_out' = p_out
  /\ UNCHANGED <<raw, fetch_complete, store, process_complete, report,
                 p_listing, p_idx, p_processed, avars>>

\* line 83: open(out_name, "w") creates or truncates the record file
ProcOpenOut ==
  /\ ppc = "open_out"
  /\ store' = WriteFile(store, out_name(p_listing[p_idx]), Partial)
  /\ ppc' = "dump_out"
  /\ UNCHANGED <<raw, fetch_complete, process_complete, report,
                 p_listing, p_idx, p_out, p_processed, perr, avars>>

\* lines 84-85: json.dump, close, processed.append(out_name)
ProcDumpOut ==
  /\ ppc = "dump_out"
  /\ store' = WriteFile(store, out_name(p_listing[p_idx]), Complete(p_out))
  /\ p_processed' = Append(p_processed, out_name(p_listing[p_idx]))
  /\ p_idx' = p_idx + 1
  /\ p_out' = NoRecord
  /\ ppc' = "loop"
  /\ UNCHANGED <<raw, fetch_complete, process_complete, report,
                 p_listing, perr, avars>>

\* line 87: after the loop, open(process_complete.json, "w")
ProcOpenMarker ==
  /\ ppc = "loop"
  /\ LoopDone(p_idx, p_listing)
  /\ process_complete' = Partial
  /\ ppc' = "dump_marker"
  /\ UNCHANGED <<raw, fetch_complete, store, report,
                 p_listing, p_idx, p_out, p_processed, perr, avars>>

\* line 88: json.dump({"timestamp": utc(), "files": processed}), close
ProcDumpMarker ==
  /\ ppc = "dump_marker"
  /\ process_complete' = Complete([timestamp |-> ThisRun, files |-> p_processed])
  /\ ppc' = "done"
  /\ UNCHANGED <<raw, fetch_complete, store, report,
                 p_listing, p_idx, p_out, p_processed, perr, avars>>

Processor ==
  \/ ProcWait \/ ProcList \/ ProcSkip \/ ProcRead
  \/ ProcOpenOut \/ ProcDumpOut \/ ProcOpenMarker \/ ProcDumpMarker

\* ----------------------------------------------------- analyze.py, helpers
RECURSIVE Gcd(_, _)
Gcd(a, b) == IF b = 0 THEN a ELSE Gcd(b, a % b)

\* the float n / d (d > 0) as a reduced quotient
Ratio(n, d) == LET g == Gcd(n, d) IN IF g = 0 THEN <<0, 1>> ELSE <<n \div g, d \div g>>
Zero == <<0, 1>>
\* what a division by zero and a call of an undefined name evaluate to
ZeroDivisionError == <<0, 0>>
NameError == <<0, -1>>
IsError(x) == x = ZeroDivisionError \/ x = NameError
Times(x, y) == Ratio(x[1] * y[1], x[2] * y[2])

\* the idiom "(n / d) if d else 0.0" of lines 24, 53, 63 and 64
unguarded_div(n, d) == IF d # 0 THEN Ratio(n, d) ELSE ZeroDivisionError
guarded_div(n, d) == IF d # 0 THEN Ratio(n, d) ELSE Zero

\* lines 18-24
jaccard_similarity(doc1_words, doc2_words) ==
  LET set1 == Range(doc1_words)
      set2 == Range(doc2_words)
      intersection == set1 \cap set2
      union == set1 \cup set2
  IN  guarded_div(Cardinality(intersection), Cardinality(union))

\* line 58 calls jaccard, a name no line of analyze.py defines
jaccard(t1, t2) == NameError

\* str.lower() of a word, len() of a word
lower(w) == IF w < 0 THEN 0 - w ELSE w
WordLen(w) == lower(w)

\* line 46: [w.lower() for w in WORD_RE.findall(text)]
tokens_of(text) == [i \in 1..Len(text) |-> lower(text[i])]

\* lines 26-28; an n-gram " ".join(...) is kept as the tuple of its tokens
ngrams(tokens, n) ==
  IF Len(tokens) - n + 1 <= 0 THEN <<>>
  ELSE [i \in 1..(Len(tokens) - n + 1) |-> SubSeq(tokens, i, i + n - 1)]

\* Counter(items): <<key, count>> entries in order of first occurrence
RECURSIVE Counter(_)
Counter(items) ==
  IF items = <<>> THEN <<>>
  ELSE LET n == Len(items)
           c == Counter(SubSeq(items, 1, n - 1))
           k == items[n]
       IN  IF \E i \in 1..Len(c) : c[i][1] = k
           THEN [i \in 1..Len(c) |-> IF c[i][1] = k THEN <<k, c[i][2] + 1>> ELSE c[i]]
           ELSE Append(c, <<k, 1>>)

\* lexical order of keys: words are integers, n-grams are tuples of words
RECURSIVE KeyLess(_, _)
KeyLess(a, b) ==
  IF a \in Int THEN a < b
  ELSE IF a = <<>> THEN b # <<>>
  ELSE IF b = <<>> THEN FALSE
  ELSE IF a[1] # b[1] THEN a[1] < b[1]
  ELSE KeyLess(Tail(a), Tail(b))

\* insert entry e in a list sorted on descending count; an entry goes after
\* every entry of the same count (sorted(..., reverse=True) is stable)
RECURSIVE InsertStable(_, _)
InsertStable(e, q) ==
  IF q = <<>> THEN <<e>>
  ELSE IF q[1][2] >= e[2] THEN <<q[1]>> \o InsertStable(e, Tail(q)) ELSE <<e>> \o q

RECURSIVE SortByCount(_)
SortByCount(c) ==
  IF c = <<>> THEN <<>>
  ELSE InsertStable(c[Len(c)], SortByCount(SubSeq(c, 1, Len(c) - 1)))

\* Counter.most_common(n): heapq.nlargest(n, items, key=count), which is
\* sorted(items, key=count, reverse=True)[:n]
most_common(c, n) ==
  LET q == SortByCount(c) IN SubSeq(q, 1, IF Len(q) < n THEN Len(q) ELSE n)

RECURSIVE Flatten(_)
Flatten(qs) == IF qs = <<>> THEN <<>> ELSE qs[1] \o Flatten(Tail(qs))

\* itertools.combinations(range(n), 2): <<i, j>> with i < j, in lexical order
RECURSIVE combinations2(_, _, _)
combinations2(i, j, n) ==
  IF i >= n THEN <<>>
  ELSE IF j > n THEN combinations2(i + 1, i + 2, n)
  ELSE <<<<i, j>>>> \o combinations2(i, j + 1, n)

Max(a, b) == IF a > b THEN a ELSE b

\* lines 49-81: the report built from docs, a sequence of <<fname, tokens>>
BuildReport(docs) ==
  LET toks == [i \in 1..Len(docs) |-> docs[i][2]]
      all == Flatten(toks)
      total_words == Len(all)
      vocab == Range(all)
      freq == Counter(all)
      top == most_common(freq, TOP_WORDS)
      top100 == [i \in 1..Len(top) |->
                   [word |-> top[i][1], count |-> top[i][2],
                    frequency |-> guarded_div(top[i][2], total_words)]]
      pairs == combinations2(1, 2, Len(docs))
      sims == [k \in 1..Len(pairs) |->
                 [doc1 |-> docs[pairs[k][1]][1], doc2 |-> docs[pairs[k][2]][1],
                  similarity |-> jaccard(docs[pairs[k][1]][2], docs[pairs[k][2]][2])]]
      bigrams == most_common(Counter(Flatten([i \in 1..Len(toks) |-> ngrams(toks[i], 2)])), TOP_NGRAMS)
      trigrams == most_common(Counter(Flatten([i \in 1..Len(toks) |-> ngrams(toks[i], 3)])), TOP_NGRAMS)
      sentence_est == IF total_words # 0 THEN Max(1, total_words \div SENTENCE_WORDS) ELSE 0
      avg_sentence_len == guarded_div(total_words, sentence_est)
      avg_word_len == guarded_div(SumSeq([i \in 1..Len(all) |-> WordLen(all[i])]), total_words)
      complexity == IF IsError(avg_sentence_len) \/ IsError(avg_word_len)
                    THEN ZeroDivisionError ELSE Times(avg_sentence_len, avg_word_len)
  IN  [documents_processed |-> Len(docs),
       total_words |-> total_words,
       unique_words |-> Cardinality(vocab),
       top_100_words |-> top100,
       document_similarity |-> sims,
       top_bigrams |-> [i \in 1..Len(bigrams) |-> [bigram |-> bigrams[i][1], count |-> bigrams[i][2]]],
       top_trigrams |-> [i \in 1..Len(trigrams) |-> [trigram |-> trigrams[i][1], count |-> trigrams[i][2]]],
       readability |-> [avg_sentence_length |-> avg_sentence_len,
                        avg_word_length |-> avg_word_len,
                        complexity_score |-> complexity]]

\* the exception building the report raises, "none" when it raises none
RaisedBy(r) ==
  IF \E k \in 1..Len(r.document_similarity) : r.document_similarity[k].similarity = NameError
  THEN "NameError"
  ELSE IF \/ \E i \in 1..Len(r.top_100_words) : IsError(r.top_100_words[i].frequency)
          \/ IsError(r.readability.avg_sentence_length)
          \/ IsError(r.readability.avg_word_length)
  THEN "ZeroDivisionError"
  ELSE "none"

NoReport == [documents_processed |-> -1]

\* ------------------------------------------------------ analyze.py, main()
\* lines 35-37: leave the poll loop once process_complete.json exists
AnaWait ==
  /\ apc = "wait"
  /\ WaitOver(process_complete.state # "absent")
  /\ apc' = "list"
  /\ UNCHANGED <<raw, fetch_complete, store, process_complete, report, pvars,
                 a_listing, a_idx, a_docs, a_report, aerr>>

\* line 41: the listing of /shared/processed is taken once
AnaList ==
  /\ apc = "list"
  /\ a_listing' = sorted_listdir(DOMAIN store)
  /\ a_idx' = 1
  /\ apc' = "load"
  /\ UNCHANGED <<raw, fetch_complete, store, process_complete, report, pvars,
                 a_docs, a_report, aerr>>

\* lines 42-47: open and json.load one record, keep its lower-cased tokens;
\* json.load raises JSONDecodeError on a file that is not yet a whole record
AnaLoad ==
  /\ apc = "load"
  /\ ~LoopDone(a_idx, a_listing)
  /\ LET fname == a_listing[a_idx]
     IN  IF fname[2] # "json"
         THEN /\ a_idx' = a_idx + 1
              /\ UNCHANGED <<apc, a_docs, aerr>>
         ELSE IF store[fname].state = "complete"
         THEN /\ a_docs' = Append(a_docs, <<fname, tokens_of(store[fname].content.text)>>)
              /\ a_idx' = a_idx + 1
              /\ UNCHANGED <<apc, aerr>>
         ELSE /\ apc' = "crashed"
              /\ aerr' = "JSONDecodeError"
              /\ UNCHANGED <<a_idx, a_docs>>
  /\ UNCHANGED <<raw, fetch_complete, store, process_complete, report, pvars,
                 a_listing, a_report>>

\* lines 49-81: compute the report; an exception ends the process
AnaCompute ==
  /\ apc = "load"
  /\ LoopDone(a_idx, a_listing)
  /\ LET r == BuildReport(a_docs)
     IN  IF RaisedBy(r) = "none"
         THEN /\ a_report' = r
              /\ apc' = "open_report"
              /\ aerr' = aerr
         ELSE /\ apc' = "crashed"
              /\ aerr' = RaisedBy(r)
              /\ a_report' = a_report
  /\ UNCHANGED <<raw, fetch_complete, store, process_complete, report, pvars,
                 a_listing, a_idx, a_docs>>

\* line 83: open(final_report.json, "w") creates or truncates the report
AnaOpenReport ==
  /\ apc = "open_report"
  /\ report' = Partial
  /\ apc' = "dump_report"
  /\ UNCHANGED <<raw, fetch_complete, store, process_complete, pvars,
                 a_listing, a_idx, a_docs, a_report, aerr>>

\* line 84: json.dump(report, f), close
AnaDumpReport ==
  /\ apc = "dump_report"
  /\ report' = Complete(a_report)
  /\ apc' = "done"
  /\ UNCHANGED <<raw, fetch_complete, store, process_complete, pvars,
                 a_listing, a_idx, a_docs, a_report, aerr>>

Analyzer ==
  \/ AnaWait \/ AnaList \/ AnaLoad \/ AnaCompute \/ AnaOpenReport \/ AnaDumpReport

\* ------------------------------------------------------------- the fetcher
\* the upstream stage: it has stored its documents and publishes its marker
FetcherPublish ==
  /\ ~fetch_complete
  /\ fetch_complete' = TRUE
  /\ UNCHANGED <<raw, store, process_complete, report, pvars, avars>>

\* ------------------------------------------------------------ the pipeline
\* what an earlier run over the documents prev left in /shared/processed
StaleText == <<1>>
StaleStore(prev) ==
  [n \in {out_name(HtmlName(s)) : s \in prev} |->
     Complete(MakeRecord(<<n[1], "html">>, StaleText, PrevRun))]
StaleMarker(prev) ==
  Complete([timestamp |-> PrevRun, files |-> sorted_listdir({out_name(HtmlName(s)) : s \in prev})])

Init ==
  /\ \E names \in SUBSET RawNames :
       /\ raw \in [names -> Payloads]
       /\ OtherName \in names => raw[OtherName] = Readable(<<>>)
  /\ fetch_complete = FALSE
  /\ \/ /\ store = <<>>
        /\ process_complete = Absent
     \/ \E prev \in SUBSET Stems :
          /\ store = StaleStore(prev)
          /\ process_complete = StaleMarker(prev)
  /\ report = Absent
  /\ ppc = "wait" /\ p_listing = <<>> /\ p_idx = 1 /\ p_out = NoRecord
  /\ p_processed = <<>> /\ perr = "none"
  /\ apc = "wait" /\ a_listing = <<>> /\ a_idx = 1 /\ a_docs = <<>>
  /\ a_report = NoReport /\ aerr = "none"

Next == FetcherPublish \/ Processor \/ Analyzer

Spec == Init /\ [][Next]_vars

\* each stage is a running process: it is scheduled for as long as it can step
FairSpec == Spec /\ WF_vars(Processor) /\ WF_vars(Analyzer)

\* the Extraction Stage is stopped from outside (or dies) at any point after
\* its poll loop: the process takes no further step, the files stay as they are
ProcKill ==
  /\ ppc \in {"list", "loop", "open_out", "dump_out", "dump_marker"}
  /\ ppc' = "killed"
  /\ UNCHANGED <<raw, fetch_complete, store, process_complete, report,
                 p_listing, p_idx, p_out, p_processed, perr, avars>>

CrashNext == Next \/ ProcKill

\* the pipeline with a crash of the Extraction Stage possible at every point
CrashSpec == Init /\ [][CrashNext]_vars

\* ------------------------------------------------------------------ claims
HtmlDocs == {n \in DOMAIN raw : IsHtml(n)}
MarkerOfThisPass ==
  \/ process_complete.state = "partial"
  \/ process_complete.state = "complete" /\ process_complete.content.timestamp = ThisRun
MidWrite(f) == ppc = "dump_out" /\ out_name(p_listing[p_idx]) = f

\* C1: whenever the process-complete marker exists, every record its files
\* list names has been completely written: the marker of this pass is opened
\* only after the loop is exhausted with no record write in progress, every
\* record it names is complete and of this pass; a record named by a marker
\* left by an earlier run is complete unless this pass is rewriting it.
C1_ArtifactsBeforeMarker ==
  /\ MarkerOfThisPass =>
       /\ ppc \in {"dump_marker", "done"}
       /\ LoopDone(p_idx, p_listing)
       /\ p_idx = Len(p_listing) + 1
       /\ \A i \in 1..Len(p_processed) :
            /\ p_processed[i] \in DOMAIN store
            /\ store[p_processed[i]].state = "complete"
            /\ store[p_processed[i]].content.processed_at = ThisRun
  /\ process_complete.state = "complete" =>
       \A f \in Range(process_complete.content.files) :
         /\ f \in DOMAIN store
         /\ IF process_complete.content.timestamp = ThisRun
            THEN store[f].state = "complete" /\ store[f].content.processed_at = ThisRun
            ELSE store[f].state = "complete" \/ MidWrite(f)

C1_Witness ==
  /\ process_complete.state = "complete"
  /\ process_complete.content.timestamp = ThisRun
  /\ Len(process_complete.content.files) = 2

\* C2: the Extraction Stage is past its poll loop (it lists or opens entries
\* of the raw store) only if fetch_complete exists, and the Analysis Stage is
\* past its poll loop (it lists or opens entries of the processed store) only
\* if process_complete exists.
C2_NoReadBeforeMarker ==
  /\ (ppc # "wait" \/ p_listing # <<>> \/ p_out # NoRecord) => fetch_complete
  /\ (apc # "wait" \/ a_listing # <<>> \/ a_docs # <<>>) => process_complete.state # "absent"

C2_Witness ==
  /\ ppc = "dump_out"
  /\ apc = "load" /\ a_docs # <<>>

\* C3: when the Extraction Stage has finished its pass, every .html document
\* of the raw store has exactly one processed record of its stem, complete and
\* made from that document, and the marker lists exactly those records, each
\* once.
C3_OneRecordPerDocument ==
  ppc = "done" =>
    /\ \A n \in HtmlDocs :
         /\ Cardinality({f \in DOMAIN store : f[1] = n[1]}) = 1
         /\ <<n[1], "json">> \in DOMAIN store
         /\ store[<<n[1], "json">>].state = "complete"
         /\ store[<<n[1], "json">>].content.source_file = n
    /\ process_complete.state = "complete"
    /\ LET files == process_complete.content.files
       IN  /\ Range(files) = {<<n[1], "json">> : n \in HtmlDocs}
           /\ Len(files) = Cardinality(HtmlDocs)

C3_Witness ==
  /\ ppc = "done"
  /\ Cardinality(HtmlDocs) = 2
  /\ OtherName \in DOMAIN raw

\* the similarity list the claim describes for the loaded documents
ExpectedSims(docs) ==
  LET pairs == combinations2(1, 2, Len(docs))
  IN  [k \in 1..Len(pairs) |->
         [doc1 |-> docs[pairs[k][1]][1], doc2 |-> docs[pairs[k][2]][1],
          similarity |-> jaccard_similarity(docs[pairs[k][1]][2], docs[pairs[k][2]][2])]]

\* C4: for any processed corpus the analysis ends with a report whose
\* document_similarity holds every pair of distinct documents once, in
\* document order, with the Jaccard index of the two token sets.
C4_SimilarityList ==
  (apc = "done" \/ (apc = "crashed" /\ aerr # "JSONDecodeError")) =>
    /\ report.state = "complete"
    /\ report.content.document_similarity = ExpectedSims(a_docs)

\* a ranked table: descending count, then ascending lexical key
Ranked(t, key(_)) ==
  \A i \in 1..Len(t) : \A j \in 1..Len(t) :
    i < j => \/ t[i].count > t[j].count
             \/ t[i].count = t[j].count /\ KeyLess(key(t[i]), key(t[j]))

\* C5: every ranked table of the report is in the order (descending count,
\* ascending lexical key) and within its limit of 100 or 50 entries.
C5_RankedTables ==
  report.state = "complete" =>
    LET r == report.content
    IN  /\ Len(r.top_100_words) <= TOP_WORDS
        /\ Len(r.top_bigrams) <= TOP_NGRAMS
        /\ Len(r.top_trigrams) <= TOP_NGRAMS
        /\ Ranked(r.top_100_words, LAMBDA e : e.word)
        /\ Ranked(r.top_bigrams, LAMBDA e : e.bigram)
        /\ Ranked(r.top_trigrams, LAMBDA e : e.trigram)

ZeroReport ==
  [documents_processed |-> 0, total_words |-> 0, unique_words |-> 0,
   top_100_words |-> <<>>, document_similarity |-> <<>>,
   top_bigrams |-> <<>>, top_trigrams |-> <<>>,
   readability |-> [avg_sentence_length |-> Zero, avg_word_length |-> Zero,
                    complexity_score |-> Zero]]

\* C6: when the Analysis Stage found the processed store empty, it raises no
\* exception, and the report it builds and writes has zero counts, empty
\* lists and readability fields 0.0.
C6_EmptyCorpus ==
  (apc \notin {"wait", "list"} /\ a_listing = <<>>) =>
    /\ apc # "crashed" /\ aerr = "none"
    /\ apc \in {"open_report", "dump_report", "done"} => a_report = ZeroReport
    /\ apc = "done" => report = Complete(ZeroReport)

C6_Witness ==
  /\ apc = "done" /\ a_listing = <<>>
  /\ process_complete.state = "complete"
  /\ report.state = "complete" /\ report.content.total_words = 0

\* C7: the report path never holds a partially written report.
C7_AtomicReport == report.state # "partial"

\* C8: an unreadable raw document does not abort the Extraction Stage: the
\* stage raises nothing, and when it is done the marker is published and
\* every readable document has its record.
C8_BadDocumentSkipped ==
  (\E n \in HtmlDocs : ~raw[n].readable) =>
    /\ ppc # "crashed" /\ perr = "none"
    /\ ppc = "done" =>
         /\ process_complete.state = "complete"
         /\ \A n \in HtmlDocs : raw[n].readable =>
              out_name(n) \in DOMAIN store /\ store[out_name(n)].state = "complete"

\* C9: the Analysis Stage never opens a processed record that the Extraction
\* Stage is in the middle of writing (json.load never meets a partial file).
C9_NoMidWriteRead == ~(apc = "crashed" /\ aerr = "JSONDecodeError")

\* C10: a stage polls while its marker is absent, and under fair scheduling
\* fetch_complete leads to the marker of this pass being published and
\* process_complete leads to the report being written.
C10_MarkerLeadsToCompletion ==
  /\ [](~fetch_complete => ppc = "wait")
  /\ [](process_complete.state = "absent" => apc = "wait")
  /\ fetch_complete ~>
       (process_complete.state = "complete" /\ process_complete.content.timestamp = ThisRun)
  /\ (process_complete.state # "absent") ~> (report.state = "complete")

\* the record this pass has opened and not yet dumped and closed
InProgress(f) ==
  /\ ppc \in {"dump_out", "killed"}
  /\ ~LoopDone(p_idx, p_listing)
  /\ f = <<p_listing[p_idx][1], "json">>

\* C11: each record of the pass is completely written before the next
\* document is started, and stays present, complete and unchanged through
\* every later step, a crash of the stage included: every record the pass has
\* written is complete and made from its own document, the only partial
\* record is the one of the document in progress, and no step alters a
\* written record.
C11_PerDocumentDurability ==
  /\ [](\A i \in 1..Len(p_processed) :
          /\ p_processed[i] \in DOMAIN store
          /\ store[p_processed[i]].state = "complete"
          /\ store[p_processed[i]].content.processed_at = ThisRun
          /\ store[p_processed[i]].content.source_file = <<p_processed[i][1], "html">>)
  /\ [](\A f \in DOMAIN store : store[f].state = "partial" => InProgress(f))
  /\ [][\A f \in Range(p_processed) : f \in DOMAIN store' /\ store'[f] = store[f]]_vars

C11_Witness ==
  /\ ppc = "killed"
  /\ Len(p_processed) = 1
  /\ store[p_processed[1]].state = "complete"
  /\ \E f \in DOMAIN store : store[f].state = "partial"

\* the records the marker vouches for: its files list, or the list being
\* dumped into it while the Extraction Stage is writing it
Vouched ==
  IF process_complete.state = "complete" THEN Range(process_complete.content.files)
  ELSE IF process_complete.state = "partial" THEN Range(p_processed)
  ELSE {}
Loaded == {a_docs[i][1] : i \in 1..Len(a_docs)}

\* C12: when the Analysis Stage has loaded its last record and computes the
\* report, the records it loaded (documents_processed, the names of
\* document_similarity) are exactly the paths of the marker's files list.
C12_LoadedEqualsVouched ==
  [][(apc = "load" /\ LoopDone(a_idx, a_listing) /\ apc' # "load") =>
       /\ Loaded = Vouched
       /\ Len(a_docs) = Cardinality(Vouched)]_vars

====
